---- MODULE Spec2Model ----
(***************************************************************************)
(* GitCompass backend: the recommendation orchestrator, the guide          *)
(* orchestrator and the skill store they read, as request handlers over    *)
(* one persisted User document.                                            *)
(***************************************************************************)
EXTENDS Integers, Sequences, FiniteSets, TLC

VARIABLES
  db,         \* the persisted User document (MongoDB)
  pc,         \* position of the request being served: "idle", "ai", "github", "done"
  route,      \* the handler the request was dispatched to
  reqUser,    \* req.user, the in-memory document passport loaded for the request
  reqBody,    \* req.body / req.params / req.file of the request
  topSkills,  \* the recommend handler's local topSkills
  aiResult,   \* how the request's AI-service call settled
  ghResult,   \* how the request's GitHub call settled
  calls,      \* the upstream calls the request has issued, in order
  res,        \* the responses sent on the request, in order
  seen,       \* a template guide response a client has kept from an earlier request
  reqs        \* the skill requests in flight side by side, each with the document it read

vars == <<db, pc, route, reqUser, reqBody, topSkills, aiResult, ghResult, calls, res,
          seen, reqs>>

----------------------------------------------------------------------------
(* JavaScript values whose kind the handlers test *)

Undef == [t |-> "undefined"]
Null == [t |-> "null"]
Num(n) == [t |-> "number", v |-> n]
Str(s) == [t |-> "string", v |-> s]
Arr(s) == [t |-> "array", v |-> s]
Obj(r) == [t |-> "object", v |-> r]

\* JavaScript truthiness, as !x and x || d use it
Truthy(x) ==
  CASE x.t \in {"undefined", "null"} -> FALSE
    [] x.t = "number" -> x.v # 0
    [] x.t = "string" -> x.v # ""
    [] OTHER -> TRUE

\* x || d
OrElse(x, d) == IF Truthy(x) THEN x ELSE d

\* x?.f and x.f on a value that is not null or undefined
Field(x, f) == IF x.t = "object" /\ f \in DOMAIN x.v THEN x.v[f] ELSE Undef

\* x.f throws a TypeError exactly on null and undefined
Throws(x) == x.t \in {"undefined", "null"}

\* String.prototype.toLowerCase over the names the model uses
Lower(s) ==
  CASE s = "React" -> "react"
    [] s = "Python" -> "python"
    [] s = "JavaScript" -> "javascript"
    [] s = "Node.js" -> "node.js"
    [] s = "MongoDB" -> "mongodb"
    [] OTHER -> s

SeqsUpTo(S, n) == UNION {[1..k -> S] : k \in 0..n}

Min(a, b) == IF a < b THEN a ELSE b

RECURSIVE FilterSeq(_, _)
\* Array.prototype.filter with the predicate given as the set of kept values
FilterSeq(s, keep) ==
  IF s = <<>> THEN <<>>
  ELSE IF Head(s) \in keep
       THEN <<Head(s)>> \o FilterSeq(Tail(s), keep)
       ELSE FilterSeq(Tail(s), keep)

RECURSIVE Join(_, _)
\* Array.prototype.join
Join(s, sep) ==
  IF s = <<>> THEN ""
  ELSE IF Len(s) = 1 THEN Head(s)
  ELSE Head(s) \o sep \o Join(Tail(s), sep)

----------------------------------------------------------------------------
(* Bounds of the model *)

MaxSkills == 3
MaxRecs == 2
MaxHits == 3
MaxRanked == 6
MaxMatching == 12
MaxWeeks == 3
MaxWeekDays == 2

(* Program constants *)

TopSkillCount == 5
BaseMatchScore == 95
MatchScoreStep == 5
PerPage == 10
DefaultManualConfidence == 80
DefaultExtractedConfidence == 85
RandomIssuesSpan == 20
RandomIssuesBase == 5

----------------------------------------------------------------------------
(* The User document *)

NewUser ==
  [_id |-> "u1", username |-> "octocat", accessToken |-> "gho_token", skills |-> <<>>,
   resume |-> Undef]

NoResult == [kind |-> "none"]

\* the requests that may be in flight side by side
Slots == 1..2

\* a slot no request has taken yet
NoRequest ==
  [pc |-> "new", op |-> "none", arg |-> "", user |-> <<>>, fresh |-> TRUE,
   status |-> 0, added |-> <<>>]

Init ==
  /\ db = NewUser
  /\ pc = "idle"
  /\ route = "none"
  /\ reqUser = Null
  /\ reqBody = Undef
  /\ topSkills = <<>>
  /\ aiResult = NoResult
  /\ ghResult = NoResult
  /\ calls = <<>>
  /\ res = <<>>
  /\ seen = NoResult
  /\ reqs = [r \in Slots |-> NoRequest]

\* res.status(s).json(b)
Reply(status, body) == [status |-> status, body |-> body]

\* requests are served one at a time: a handler is entered when none is in flight
CanBegin == pc = "idle"

\* the response has been flushed; the request and its objects are dropped
RequestEnds ==
  /\ pc = "done"
  /\ pc' = "idle"
  /\ route' = "none"
  /\ reqUser' = Null
  /\ reqBody' = Undef
  /\ topSkills' = <<>>
  /\ aiResult' = NoResult
  /\ ghResult' = NoResult
  /\ calls' = <<>>
  /\ res' = <<>>
  /\ UNCHANGED <<db, seen, reqs>>

\* server.js isAuthenticated: 401 unless the session is authenticated
Unauthorized ==
  Reply(401, [success |-> FALSE, message |-> "Authentication required. Please log in."])

\* a middleware that lets every request pass, as optionalAuth does
PassesEveryRequest(auth) == TRUE

\* the isAuthenticated middleware calls next() exactly when req.isAuthenticated()
isAuthenticated(auth) == auth

\* req.user: passport sets it for an authenticated session only
ReqUser(auth) == IF auth THEN db ELSE Null

\* a request that ends in its first step with the single response r
EndsWith(name, user, body, r) ==
  /\ route' = name
  /\ reqUser' = user
  /\ reqBody' = body
  /\ topSkills' = <<>>
  /\ aiResult' = NoResult
  /\ ghResult' = NoResult
  /\ calls' = <<>>
  /\ res' = <<r>>
  /\ pc' = "done"

----------------------------------------------------------------------------
(* Routing: server.js mounts the routers, Express takes the first route that matches *)

Route(method, path, handler) == [method |-> method, path |-> path, handler |-> handler]

\* app.use(prefix, router): the router's routes below the prefix, in their order
Mount(prefix, routes) ==
  [i \in 1..Len(routes) |-> [routes[i] EXCEPT !.path = prefix \o @]]

AuthRoutes ==
  <<Route("GET", <<"github">>, "auth.github"),
    Route("GET", <<"github", "callback">>, "auth.callback"),
    Route("GET", <<"user">>, "auth.user"),
    Route("GET", <<"check">>, "auth.check"),
    Route("POST", <<"logout">>, "auth.logout"),
    Route("GET", <<"contributions">>, "auth.contributions")>>

ResumeRoutes ==
  <<Route("POST", <<"upload">>, "resume.upload"),
    Route("GET", <<"skills">>, "resume.skills")>>

RepositoryRoutes ==
  <<Route("POST", <<"search">>, "repositories.search"),
    Route("GET", <<"recommendations">>, "recommend"),
    Route("GET", <<":owner", ":repo">>, "repositories.details"),
    Route("GET", <<":owner", ":repo", "issues">>, "repositories.issues")>>

GuideRoutes == <<Route("POST", <<"generate">>, "guide")>>

SkillsRoutes ==
  <<Route("GET", <<>>, "skills.get"),
    Route("POST", <<>>, "skills.add"),
    Route("DELETE", <<":skillName">>, "skills.delete"),
    Route("POST", <<"extract-resume">>, "skills.extract"),
    Route("DELETE", <<"all">>, "skills.clear")>>

\* every route of the application, in registration order
Routes ==
  <<Route("GET", <<"api", "health">>, "health")>>
    \o Mount(<<"api", "auth">>, AuthRoutes)
    \o Mount(<<"api", "resume">>, ResumeRoutes)
    \o Mount(<<"api", "repositories">>, RepositoryRoutes)
    \o Mount(<<"api", "guide">>, GuideRoutes)
    \o Mount(<<"api", "skills">>, SkillsRoutes)

\* a route parameter matches any one segment
IsParam(seg) == seg \in {":owner", ":repo", ":skillName"}

Matches(pattern, path) ==
  /\ Len(pattern) = Len(path)
  /\ \A i \in 1..Len(pattern) : IsParam(pattern[i]) \/ pattern[i] = path[i]

\* the handler a request is dispatched to; the last app.use is the 404 handler
Dispatch(method, path) ==
  LET hits == {i \in 1..Len(Routes) :
                 Routes[i].method = method /\ Matches(Routes[i].path, path)}
  IN IF hits = {} THEN "notFound"
     ELSE Routes[CHOOSE i \in hits : \A j \in hits : i <= j].handler

\* the endpoints of the README's API table, :owner/:repo filled in
ReadmeEndpoints ==
  {[method |-> "GET", path |-> <<"api", "auth", "github">>],
   [method |-> "GET", path |-> <<"api", "auth", "github", "callback">>],
   [method |-> "GET", path |-> <<"api", "auth", "user">>],
   [method |-> "POST", path |-> <<"api", "auth", "logout">>],
   [method |-> "POST", path |-> <<"api", "resume", "upload">>],
   [method |-> "GET", path |-> <<"api", "resume", "skills">>],
   [method |-> "GET", path |-> <<"api", "repositories", "search">>],
   [method |-> "GET", path |-> <<"api", "repositories", "recommendations">>],
   [method |-> "GET", path |-> <<"api", "repositories", "facebook", "react">>],
   [method |-> "POST", path |-> <<"api", "guides", "generate">>]}

\* the requests clients send
Requests ==
  ReadmeEndpoints
    \cup {[method |-> "GET", path |-> <<"api", "health">>],
          [method |-> "POST", path |-> <<"api", "repositories", "search">>],
          [method |-> "POST", path |-> <<"api", "guide", "generate">>],
          [method |-> "DELETE", path |-> <<"api", "skills", "all">>],
          [method |-> "GET", path |-> <<"api", "skills", "all">>],
          [method |-> "GET", path |-> <<"api", "nothing">>]}

RouteNotFoundReply == Reply(404, [success |-> FALSE, message |-> "Route not found"])

\* a request that no route matches reaches the 404 handler
RouteNotFound(request) ==
  /\ CanBegin
  /\ Dispatch(request.method, request.path) = "notFound"
  /\ EndsWith("notFound", Null, request, RouteNotFoundReply)
  /\ UNCHANGED db

----------------------------------------------------------------------------
(* Upstream services: how a call can settle *)

\* axios rejects: connection refused, timeout, or a non-2xx status
AiRefused == [kind |-> "refused", status |-> 0, data |-> Undef]
AiTimeout == [kind |-> "timeout", status |-> 0, data |-> Undef]
AiStatus(s) == [kind |-> "status", status |-> s, data |-> Undef]
\* axios resolves with a 2xx status and the parsed body
AiOk(d) == [kind |-> "ok", status |-> 200, data |-> d]

AiCall(op, payload) == [svc |-> "ai", op |-> op, payload |-> payload]

----------------------------------------------------------------------------
(* Skill management: routes/skills.routes.js *)

Names == {"react", "React", "python"}

Range(s) == {s[i] : i \in 1..Len(s)}

\* the skills a client may post: name, optional confidence, optional category
InputSkills ==
  {[name |-> n, confidence |-> c, category |-> Undef] :
     n \in Names, c \in {Undef, Num(0), Num(90)}}

ManualBodies ==
  {Undef, Arr(<<>>)}
    \cup {Arr(<<s>>) : s \in InputSkills}
    \cup {Arr(<<s, t>>) : s, t \in {i \in InputSkills : i.confidence = Undef}}

\* a de-duplication that compares the names as written
NewManualSkillsExactCase(existing, input) ==
  LET existingSkillNames == {existing[i].name : i \in 1..Len(existing)}
      kept == FilterSeq(input, {s \in Range(input) : s.name \notin existingSkillNames})
  IN [i \in 1..Len(kept) |->
        [name |-> kept[i].name,
         confidence |-> OrElse(kept[i].confidence, Num(DefaultManualConfidence)).v,
         category |-> OrElse(kept[i].category, Str("Manual")).v]]

\* user.resume?.f, the stored strings as JavaScript values
ResumeField(resume, f) ==
  IF resume.t = "object" /\ f \in DOMAIN resume.v THEN Str(resume.v[f]) ELSE Undef

\* GET /api/skills
GetSkills(auth) ==
  /\ CanBegin
  /\ UNCHANGED db
  /\ IF ~isAuthenticated(auth)
     THEN EndsWith("skills.get", Null, Undef, Unauthorized)
     ELSE LET user == db
              hasResume == Truthy(ResumeField(user.resume, "filename"))
          IN EndsWith("skills.get", user, Undef,
                      Reply(200, [success |-> TRUE,
                                  data |-> [skills |-> user.skills,
                                            hasResume |-> hasResume,
                                            resumeFilename |-> ResumeField(user.resume, "filename"),
                                            resumeUploadedAt |-> ResumeField(user.resume, "uploadedAt")]]))

\* newSkills of POST /api/skills
NewManualSkills(existing, input) ==
  LET existingSkillNames == {Lower(existing[i].name) : i \in 1..Len(existing)}
      kept == FilterSeq(input, {s \in Range(input) : Lower(s.name) \notin existingSkillNames})
  IN [i \in 1..Len(kept) |->
        [name |-> kept[i].name,
         confidence |-> OrElse(kept[i].confidence, Num(DefaultManualConfidence)).v,
         category |-> OrElse(kept[i].category, Str("Manual")).v]]

\* POST /api/skills
AddSkills(auth, body) ==
  /\ CanBegin
  /\ IF ~isAuthenticated(auth)
     THEN /\ EndsWith("skills.add", Null, body, Unauthorized)
          /\ UNCHANGED db
     ELSE IF ~Truthy(body) \/ body.t # "array" \/ Len(body.v) = 0
     THEN /\ EndsWith("skills.add", ReqUser(auth), body,
                      Reply(400, [success |-> FALSE, message |-> "Please provide skills array"]))
          /\ UNCHANGED db
     ELSE LET user == db
              newSkills == NewManualSkills(user.skills, body.v)
              saved == [user EXCEPT !.skills = user.skills \o newSkills]
          IN /\ Len(saved.skills) <= MaxSkills
             /\ db' = saved
             /\ EndsWith("skills.add", saved, body,
                         Reply(200, [success |-> TRUE,
                                     data |-> [skills |-> saved.skills, added |-> newSkills]]))

\* a handler that reports a delete of nothing as done
SkillNotFoundAccepted ==
  Reply(200, [success |-> TRUE, message |-> "Skill deleted successfully"])

SkillNotFound == Reply(404, [success |-> FALSE, message |-> "Skill not found"])

\* a filter that compares the names as written
KeptSkillsExactCase(skills, skillName) ==
  FilterSeq(skills, {s \in Range(skills) : s.name # skillName})

\* the skills a delete keeps: those whose name differs ignoring case
KeptSkills(skills, skillName) ==
  FilterSeq(skills, {s \in Range(skills) : Lower(s.name) # Lower(skillName)})

\* DELETE /api/skills/:skillName
DeleteSkill(auth, skillName) ==
  /\ CanBegin
  /\ IF ~isAuthenticated(auth)
     THEN /\ EndsWith("skills.delete", Null, Str(skillName), Unauthorized)
          /\ UNCHANGED db
     ELSE LET user == db
              initialLength == Len(user.skills)
              kept == KeptSkills(user.skills, skillName)
              filtered == [user EXCEPT !.skills = kept]
          IN IF Len(kept) = initialLength
             THEN /\ EndsWith("skills.delete", filtered, Str(skillName), SkillNotFound)
                  /\ UNCHANGED db
             ELSE /\ db' = filtered
                  /\ EndsWith("skills.delete", filtered, Str(skillName),
                              Reply(200, [success |-> TRUE, data |-> [skills |-> kept]]))

\* DELETE /api/skills/all as its own handler runs it
ClearSkills(auth) ==
  /\ CanBegin
  /\ IF ~isAuthenticated(auth)
     THEN /\ EndsWith("skills.clear", Null, Undef, Unauthorized)
          /\ UNCHANGED db
     ELSE LET saved == [db EXCEPT !.skills = <<>>, !.resume = Null]
          IN /\ db' = saved
             /\ EndsWith("skills.clear", saved, Undef,
                         Reply(200, [success |-> TRUE, message |-> "All skills cleared",
                                     data |-> [skills |-> <<>>]]))

\* the path of a clear-all request
ClearAllPath == <<"api", "skills", "all">>

\* DELETE /api/skills/all runs the handler the router dispatches it to
DeleteAll(auth) ==
  IF Dispatch("DELETE", ClearAllPath) = "skills.clear"
  THEN ClearSkills(auth)
  ELSE DeleteSkill(auth, ClearAllPath[3])

\* what the AI service's extract-skills operation may answer
ExtractedLists ==
  {<<>>,
   <<[name |-> "python", confidence |-> Undef, category |-> Undef]>>,
   <<[name |-> "React", confidence |-> Num(90), category |-> Str("Language")]>>}

ExtractAiOutcomes ==
  {AiRefused, AiTimeout, AiStatus(422), AiOk(Null), AiOk(Obj([skills |-> Undef]))}
    \cup {AiOk(Obj([skills |-> Arr(l)])) : l \in ExtractedLists}

ResumeFiles == {Undef, Obj([originalname |-> "cv.pdf"])}

\* a merge that appends every extracted skill
NewExtractedSkillsUnfiltered(existing, extracted) ==
  [i \in 1..Len(extracted) |->
     [name |-> extracted[i].name,
      confidence |-> OrElse(extracted[i].confidence, Num(DefaultExtractedConfidence)).v,
      category |-> OrElse(extracted[i].category, Str("Extracted")).v]]

\* newSkills of POST /api/skills/extract-resume
NewExtractedSkills(existing, extracted) ==
  LET existingSkillNames == {Lower(existing[i].name) : i \in 1..Len(existing)}
      kept == FilterSeq(extracted,
                        {s \in Range(extracted) : Lower(s.name) \notin existingSkillNames})
  IN [i \in 1..Len(kept) |->
        [name |-> kept[i].name,
         confidence |-> OrElse(kept[i].confidence, Num(DefaultExtractedConfidence)).v,
         category |-> OrElse(kept[i].category, Str("Extracted")).v]]

\* the catch block of POST /api/skills/extract-resume
ExtractFailure(outcome) ==
  IF outcome.kind = "refused"
  THEN Reply(503, [success |-> FALSE, message |-> "AI service is not available"])
  ELSE IF outcome.kind = "status"
  THEN Reply(outcome.status, [success |-> FALSE, message |-> "Failed to process resume"])
  ELSE Reply(500, [success |-> FALSE, message |-> "Failed to process resume"])

\* POST /api/skills/extract-resume
ExtractResume(auth, file, outcome) ==
  /\ CanBegin
  /\ IF ~isAuthenticated(auth)
     THEN /\ EndsWith("skills.extract", Null, file, Unauthorized)
          /\ UNCHANGED db
     ELSE IF ~Truthy(file)
     THEN /\ EndsWith("skills.extract", ReqUser(auth), file,
                      Reply(400, [success |-> FALSE, message |-> "Please upload a resume file"]))
          /\ UNCHANGED db
     ELSE /\ route' = "skills.extract"
          /\ reqBody' = file
          /\ topSkills' = <<>>
          /\ aiResult' = outcome
          /\ ghResult' = NoResult
          /\ calls' = <<AiCall("extract-skills", file)>>
          /\ pc' = "done"
          /\ IF outcome.kind # "ok" \/ Throws(outcome.data)
             THEN /\ reqUser' = db
                  /\ res' = <<ExtractFailure(outcome)>>
                  /\ UNCHANGED db
             ELSE LET extractedSkills == OrElse(Field(outcome.data, "skills"), Arr(<<>>)).v
                      user == db
                      newSkills == NewExtractedSkills(user.skills, extractedSkills)
                      saved == [user EXCEPT
                                  !.skills = user.skills \o newSkills,
                                  !.resume = Obj([filename |-> file.v.originalname,
                                                  uploadedAt |-> "now"])]
                  IN /\ Len(saved.skills) <= MaxSkills
                     /\ db' = saved
                     /\ reqUser' = saved
                     /\ res' = <<Reply(200, [success |-> TRUE,
                                             data |-> [skills |-> saved.skills,
                                                       extractedCount |-> Len(newSkills),
                                                       totalCount |-> Len(saved.skills)]])>>

----------------------------------------------------------------------------
(* Resume upload: routes/resume.routes.js *)

\* the skill lists the AI service may extract for an upload
UploadedLists ==
  {<<>>,
   <<[name |-> "React", confidence |-> 90, category |-> "Frontend"]>>,
   <<[name |-> "react", confidence |-> 70, category |-> "Frontend"],
     [name |-> "React", confidence |-> 90, category |-> "Frontend"]>>}

UploadAiOutcomes ==
  {AiRefused, AiTimeout, AiStatus(422), AiOk(Null),
   AiOk(Obj([skills |-> Undef, rawText |-> Str("text")]))}
    \cup {AiOk(Obj([skills |-> Arr(l), rawText |-> Str("text")])) : l \in UploadedLists}

\* mockSkills of the ECONNREFUSED branch
MockSkills ==
  <<[name |-> "JavaScript", confidence |-> 95, category |-> "Language"],
    [name |-> "React", confidence |-> 90, category |-> "Frontend"],
    [name |-> "Node.js", confidence |-> 85, category |-> "Backend"],
    [name |-> "Python", confidence |-> 80, category |-> "Language"],
    [name |-> "MongoDB", confidence |-> 75, category |-> "Database"]>>

UploadFailure ==
  Reply(500, [success |-> FALSE, message |-> "Failed to process resume"])

\* GET /api/resume/skills
GetResumeSkills(auth) ==
  /\ CanBegin
  /\ UNCHANGED db
  /\ IF ~isAuthenticated(auth)
     THEN EndsWith("resume.skills", Null, Undef, Unauthorized)
     ELSE LET user == db
              hasResume == Truthy(ResumeField(user.resume, "uploadedAt"))
          IN EndsWith("resume.skills", user, Undef,
                      Reply(200, [success |-> TRUE,
                                  data |-> [skills |-> user.skills,
                                            hasResume |-> hasResume,
                                            resumeFilename |-> ResumeField(user.resume, "filename"),
                                            uploadedAt |-> ResumeField(user.resume, "uploadedAt")]]))

\* the body of a successful upload response
UploadBody(file, skills) ==
  [success |-> TRUE,
   data |-> [filename |-> file.v.originalname, skills |-> skills, skillCount |-> Len(skills)]]

\* POST /api/resume/upload; findByIdAndUpdate replaces the stored skill list, and a
\* key whose value is undefined is left out of the update
UploadResume(auth, file, outcome) ==
  /\ CanBegin
  /\ IF ~isAuthenticated(auth)
     THEN /\ EndsWith("resume.upload", Null, file, Unauthorized)
          /\ UNCHANGED db
     ELSE IF ~Truthy(file)
     THEN /\ EndsWith("resume.upload", ReqUser(auth), file,
                      Reply(400, [success |-> FALSE, message |-> "No file uploaded"]))
          /\ UNCHANGED db
     ELSE /\ route' = "resume.upload"
          /\ reqUser' = db
          /\ reqBody' = file
          /\ topSkills' = <<>>
          /\ aiResult' = outcome
          /\ ghResult' = NoResult
          /\ calls' = <<AiCall("extract-skills", file)>>
          /\ pc' = "done"
          /\ IF outcome.kind = "ok" /\ ~Throws(outcome.data)
             THEN LET skills == Field(outcome.data, "skills")
                      resume == Obj([filename |-> file.v.originalname,
                                     uploadedAt |-> "now",
                                     rawText |-> Field(outcome.data, "rawText")])
                  IN IF skills.t = "array"
                     THEN /\ db' = [db EXCEPT !.skills = skills.v, !.resume = resume]
                          /\ res' = <<Reply(200, UploadBody(file, skills.v))>>
                     ELSE /\ db' = [db EXCEPT !.resume = resume]
                          /\ res' = <<UploadFailure>>
             ELSE IF outcome.kind = "refused"
             THEN /\ db' = [db EXCEPT
                              !.skills = MockSkills,
                              !.resume = Obj([filename |-> file.v.originalname,
                                              uploadedAt |-> "now"])]
                  /\ res' = <<Reply(200, UploadBody(file, MockSkills))>>
             ELSE /\ res' = <<UploadFailure>>
                  /\ UNCHANGED db

----------------------------------------------------------------------------
(* Recommendation orchestrator: GET /api/repositories/recommendations *)

RECURSIVE InsertByConfidence(_, _)
\* s placed behind every element whose confidence is not lower (a stable insertion)
InsertByConfidence(sorted, s) ==
  IF sorted = <<>> THEN <<s>>
  ELSE IF Head(sorted).confidence >= s.confidence
       THEN <<Head(sorted)>> \o InsertByConfidence(Tail(sorted), s)
       ELSE <<s>> \o sorted

RECURSIVE SortTiesReversed(_)
\* a sort that puts the later of two equal confidences first
SortTiesReversed(skills) ==
  IF skills = <<>> THEN <<>>
  ELSE InsertByConfidence(SortTiesReversed(Tail(skills)), Head(skills))

RECURSIVE SortByConfidence(_)
\* skills.sort((a, b) => b.confidence - a.confidence): Array.prototype.sort is stable
SortByConfidence(skills) ==
  IF skills = <<>> THEN <<>>
  ELSE InsertByConfidence(SortByConfidence(SubSeq(skills, 1, Len(skills) - 1)),
                          skills[Len(skills)])

\* .slice(0, 5).map((s) => s.name) of the sorted list
TopSkillNames(sorted) ==
  [i \in 1..Min(TopSkillCount, Len(sorted)) |-> sorted[i].name]

\* a precondition that lets every user through
NoSkillsUnchecked(user) == FALSE

\* !user.skills || user.skills.length === 0; user.skills is an array (truthy) in
\* every document the skill routes store, so the first disjunct is false
NoSkills(user) == Len(user.skills) = 0

\* a handler that saves the document it sorted
RecommendStoreSaves(user) == db' = user

\* what the handler writes to the store: it never calls save()
RecommendStore(user) == UNCHANGED db

\* a search that leaves the page size to GitHub's default of 30
GithubCallDefaultPage(q, token) ==
  [svc |-> "github", op |-> "search",
   payload |-> [q |-> q, sort |-> "stars", order |-> "desc", per_page |-> 30,
                token |-> token]]

GithubCall(q, token) ==
  [svc |-> "github", op |-> "search",
   payload |-> [q |-> q, sort |-> "stars", order |-> "desc", per_page |-> PerPage,
                token |-> token]]

\* a catch block that issues the search a second time
FallbackCallsRetried(q, token) == <<GithubCall(q, token), GithubCall(q, token)>>

\* the upstream calls of the catch block: one GitHub search
FallbackCalls(q, token) == <<GithubCall(q, token)>>

\* the repository summaries the AI service ranks
AiRepos == {[id |-> 1, fullName |-> "org/low", matchScore |-> 40],
            [id |-> 2, fullName |-> "org/high", matchScore |-> 90]}

RecommendAiOutcomes ==
  {AiRefused, AiTimeout, AiStatus(500), AiOk(Null), AiOk(Obj([recommendations |-> Undef]))}
    \cup {AiOk(Obj([recommendations |-> Arr(l)])) : l \in SeqsUpTo(AiRepos, MaxRecs)}

\* the i-th repository of GitHub's search result, stars descending
GithubRepo(i) ==
  [id |-> 100 + i,
   name |-> "repo" \o ToString(i),
   full_name |-> "org/repo" \o ToString(i),
   owner |-> [login |-> "org", avatar_url |-> "https://avatars/org"],
   description |-> "d",
   stargazers_count |-> 1000 - i,
   forks_count |-> 10,
   language |-> "JavaScript",
   topics |-> IF i % 2 = 0 THEN Undef ELSE Arr(<<"web">>),
   updated_at |-> "2024-01-01"]

GhFailed == [kind |-> "error", data |-> Undef]
GhOk(d) == [kind |-> "ok", data |-> d]

\* GitHub answers a search with at most per_page items; a 2xx body may lack items
GithubOutcomes(perPage) ==
  {GhFailed, GhOk(Obj([items |-> Undef]))}
    \cup {GhOk(Obj([items |-> Arr([i \in 1..k |-> GithubRepo(i)])])) :
            k \in 0..Min(MaxHits, perPage)}

\* GitHub's answer when m repositories match: the first per_page of them
GithubPage(m, perPage) ==
  GhOk(Obj([items |-> Arr([i \in 1..Min(m, perPage) |-> GithubRepo(i)])]))

\* the answers of a search that many repositories match
LongSearchOutcomes(perPage) ==
  {GhFailed} \cup {GithubPage(m, perPage) : m \in 0..MaxMatching}

\* Math.random() as a fraction <<numerator, denominator>> in [0, 1)
RandomDraws == {<<0, 4>>, <<3, 4>>}

\* Math.floor(r * n)
FloorTimes(r, n) == (r[1] * n) \div r[2]

\* the draws of Math.random() over a list of n items, two per item: every
\* combination for a short list, the same pair for every item of a long one
RandomStreams(n) ==
  IF n <= MaxHits
  THEN [1..n -> RandomDraws \X RandomDraws]
  ELSE {[i \in 1..n |-> d] : d \in RandomDraws \X RandomDraws}

Difficulties == <<"Easy", "Medium", "Hard">>

\* a score that falls by three steps per place
MatchScoreSteep(index) == BaseMatchScore - index * 3 * MatchScoreStep

\* the score computed from a one-based index
MatchScoreOneBased(index) == BaseMatchScore - (index + 1) * MatchScoreStep

\* matchScore of the item at zero-based index
MatchScore(index) == BaseMatchScore - index * MatchScoreStep

\* the template literal "Matches your ${topSkills[0]} skills"
MatchReason(top) ==
  "Matches your " \o (IF Len(top) = 0 THEN "undefined" ELSE top[1]) \o " skills"

\* response.data.items.map((repo, index) => ...), rnd the draws of Math.random
FallbackRepositories(items, top, rnd) ==
  [i \in 1..Len(items) |->
     [id |-> items[i].id,
      name |-> items[i].name,
      fullName |-> items[i].full_name,
      owner |-> [login |-> items[i].owner.login, avatarUrl |-> items[i].owner.avatar_url],
      description |-> items[i].description,
      stars |-> items[i].stargazers_count,
      forks |-> items[i].forks_count,
      language |-> items[i].language,
      topics |-> OrElse(items[i].topics, Arr(<<>>)).v,
      updatedAt |-> items[i].updated_at,
      matchScore |-> MatchScore(i - 1),
      matchReason |-> MatchReason(top),
      goodFirstIssues |-> FloorTimes(rnd[i][1], RandomIssuesSpan) + RandomIssuesBase,
      difficulty |-> Difficulties[FloorTimes(rnd[i][2], Len(Difficulties)) + 1]]]

\* an AI-path body that re-ranks the list (here: reverses it)
AiRecommendBodyReranked(data) ==
  LET list == Field(data, "recommendations")
  IN [success |-> TRUE,
      data |-> IF list.t = "array"
               THEN Arr([i \in 1..Len(list.v) |-> list.v[Len(list.v) + 1 - i]])
               ELSE list]

\* the body of a successful AI-path response
AiRecommendBody(data) == [success |-> TRUE, data |-> Field(data, "recommendations")]

\* the body of a successful fallback response
FallbackBody(repositories) == [success |-> TRUE, data |-> Arr(repositories)]

\* a search that treats an empty result like a failed one
SearchReturnedItemsNonEmpty(outcome) ==
  /\ outcome.kind = "ok"
  /\ Field(outcome.data, "items").t = "array"
  /\ Len(Field(outcome.data, "items").v) > 0

\* githubRequest resolved and response.data.items.map did not throw
SearchReturnedItems(outcome) ==
  outcome.kind = "ok" /\ Field(outcome.data, "items").t = "array"

\* an outer catch block that answers with an empty list
RecommendFailureSwallowed == Reply(200, [success |-> TRUE, data |-> Arr(<<>>)])

RecommendFailure ==
  Reply(500, [success |-> FALSE, message |-> "Failed to get recommendations"])

\* an outer catch block that only logs the error
OuterCatchSilent == <<>>

\* what the outer catch block sends: one response
OuterCatchReplies == <<RecommendFailure>>

\* isAuthenticated, the precondition, topSkills and the dispatch of the AI call
RecommendBegin(auth) ==
  /\ CanBegin
  /\ IF ~isAuthenticated(auth)
     THEN /\ EndsWith("recommend", Null, Undef, Unauthorized)
          /\ UNCHANGED db
     ELSE IF NoSkills(db)
     THEN /\ EndsWith("recommend", db, Undef,
                      Reply(400, [success |-> FALSE,
                                  message |-> "No skills found. Please upload your resume first."]))
          /\ UNCHANGED db
     ELSE LET user == [db EXCEPT !.skills = SortByConfidence(db.skills)]
              top == TopSkillNames(user.skills)
          IN /\ route' = "recommend"
             /\ reqUser' = user
             /\ reqBody' = Undef
             /\ topSkills' = top
             /\ aiResult' = NoResult
             /\ ghResult' = NoResult
             /\ calls' = <<AiCall("recommend", [skills |-> top, userId |-> user._id])>>
             /\ res' = <<>>
             /\ pc' = "ai"
             /\ RecommendStore(user)

\* the AI call settles: the response of the try block, or the catch block's GitHub call
RecommendAiSettles(outcome) ==
  /\ pc = "ai"
  /\ route = "recommend"
  /\ aiResult' = outcome
  /\ IF outcome.kind = "ok" /\ ~Throws(outcome.data)
     THEN /\ res' = Append(res, Reply(200, AiRecommendBody(outcome.data)))
          /\ pc' = "done"
          /\ UNCHANGED calls
     ELSE /\ calls' = calls \o FallbackCalls(Join(topSkills, " OR ") \o " good-first-issues:>0",
                                             reqUser.accessToken)
          /\ pc' = "github"
          /\ UNCHANGED res
  /\ RecommendStore(reqUser)
  /\ UNCHANGED <<route, reqUser, reqBody, topSkills, ghResult>>

\* the GitHub search settles: the fallback response, or the outer catch block's 500
RecommendGithubSettles(outcome) ==
  /\ pc = "github"
  /\ route = "recommend"
  /\ ghResult' = outcome
  /\ pc' = "done"
  /\ IF SearchReturnedItems(outcome)
     THEN LET items == Field(outcome.data, "items").v
          IN \E rnd \in RandomStreams(Len(items)) :
               res' = Append(res, Reply(200, FallbackBody(FallbackRepositories(items, topSkills, rnd))))
     ELSE res' = res \o OuterCatchReplies
  /\ RecommendStore(reqUser)
  /\ UNCHANGED <<route, reqUser, reqBody, topSkills, aiResult, calls>>

\* GET /api/repositories/recommendations arrives
GetRecommendations ==
  /\ CanBegin
  /\ \E auth \in BOOLEAN : RecommendBegin(auth)
  /\ UNCHANGED <<seen, reqs>>

\* the AI service answers the recommend call, or the call fails
AiAnswersRecommend ==
  /\ pc = "ai"
  /\ \E outcome \in RecommendAiOutcomes : RecommendAiSettles(outcome)
  /\ UNCHANGED <<seen, reqs>>

\* GitHub answers the search, or the search fails
GithubAnswersSearch ==
  /\ pc = "github"
  /\ \E outcome \in GithubOutcomes(calls[Len(calls)].payload.per_page) :
       RecommendGithubSettles(outcome)
  /\ UNCHANGED <<seen, reqs>>

\* GitHub answers a search that up to MaxMatching repositories match
GithubAnswersLongSearch ==
  /\ pc = "github"
  /\ \E outcome \in LongSearchOutcomes(calls[Len(calls)].payload.per_page) :
       RecommendGithubSettles(outcome)
  /\ UNCHANGED <<seen, reqs>>

RecommendNext == GetRecommendations \/ AiAnswersRecommend \/ GithubAnswersSearch

\* the confidences of the ranked lists: one high, one low, so that ties occur
RankedConfidences == {70, 90}

\* stored skill lists longer than the five the handler keeps, names in insertion order
RankedLists ==
  UNION {{[i \in 1..k |->
             [name |-> "skill" \o ToString(i), confidence |-> c[i], category |-> "Manual"]] :
            c \in [1..k -> RankedConfidences]} : k \in 1..MaxRanked}

\* a user who has stored one of the ranked lists
RankInit ==
  /\ db \in {[NewUser EXCEPT !.skills = l] : l \in RankedLists}
  /\ pc = "idle"
  /\ route = "none"
  /\ reqUser = Null
  /\ reqBody = Undef
  /\ topSkills = <<>>
  /\ aiResult = NoResult
  /\ ghResult = NoResult
  /\ calls = <<>>
  /\ res = <<>>
  /\ seen = NoResult
  /\ reqs = [r \in Slots |-> NoRequest]

RankSpec == RankInit /\ [][RecommendNext \/ RequestEnds]_vars

\* recommend requests of the ranked users against a GitHub with many matches
PageNext ==
  GetRecommendations \/ AiAnswersRecommend \/ GithubAnswersLongSearch \/ RequestEnds

PageSpec == RankInit /\ [][PageNext]_vars

----------------------------------------------------------------------------
(* Guide orchestrator: POST /api/guide/generate *)

\* a value interpolated into a template literal
JsToString(x) ==
  CASE x.t = "undefined" -> "undefined"
    [] x.t = "null" -> "null"
    [] x.t = "number" -> ToString(x.v)
    [] x.t = "string" -> x.v
    [] OTHER -> "[object Object]"

RepoInputs ==
  {Undef,
   Obj([name |-> Str("react")]),
   Obj([fullName |-> Str(""), name |-> Str("react")]),
   Obj([fullName |-> Str("facebook/react")]),
   Obj([fullName |-> Str("facebook/react"), name |-> Str("react")])}

IssueInputs ==
  {Undef, Null}
    \cup {Obj([number |-> n, title |-> ti, difficulty |-> d, labels |-> l]) :
            n \in {Undef, Num(0), Num(42)},
            ti \in {Undef, Str("Fix bug")},
            d \in {Undef, Str(""), Str("easy"), Str("medium"), Str("hard")},
            l \in {Undef, Arr(<<>>), Arr(<<"bug", "good first issue">>), Num(5)}}

ContextInputs == {Undef, Obj([skills |-> Arr(<<"python">>)])}

GuideBodies ==
  {[repoData |-> r, issueData |-> i, userContext |-> c] :
     r \in RepoInputs, i \in IssueInputs, c \in ContextInputs}

\* the guide document the AI service writes
AiGuide == Obj([summary |-> "ai summary", gettingStarted |-> <<"ai step">>])

GuideAiOutcomes ==
  {AiRefused, AiTimeout, AiStatus(500), AiOk(Null), AiOk(Obj([guide |-> Undef])),
   AiOk(Obj([guide |-> AiGuide]))}

\* a precondition that tests only the presence of repoData
NoRepositoryOnlyMissing(body) == ~Truthy(body.repoData)

\* !repoData || !repoData.fullName
NoRepository(body) == ~Truthy(body.repoData) \/ ~Truthy(Field(body.repoData, "fullName"))

\* req.user?.skills || userContext?.skills || []
GuideUserSkills(user, body) ==
  IF user # Null THEN Arr(user.skills)
  ELSE OrElse(Field(body.userContext, "skills"), Arr(<<>>))

\* labels.includes is a TypeError on a value that is neither an array nor a string
TemplateThrows(body) ==
  OrElse(Field(body.issueData, "labels"), Arr(<<>>)).t \notin {"array", "string"}

\* an estimate that knows only easy issues
EstimatedTimeEasyOrDays(difficulty) ==
  IF difficulty = Str("easy") THEN "1-3 hours" ELSE "1-3 days"

\* difficulty === 'easy' ? '1-3 hours' : difficulty === 'medium' ? '3-8 hours' : '1-3 days'
EstimatedTime(difficulty) ==
  IF difficulty = Str("easy") THEN "1-3 hours"
  ELSE IF difficulty = Str("medium") THEN "3-8 hours"
  ELSE "1-3 days"

\* templateGuide; a TLA+ string cannot hold the backquote of the shell snippets,
\* which is written ~ here
TemplateGuide(body) ==
  LET repoData == body.repoData
      issueData == body.issueData
      issueTitle == OrElse(Field(issueData, "title"), Str("this issue"))
      issueNumber == OrElse(Field(issueData, "number"), Str(""))
      difficulty == OrElse(Field(issueData, "difficulty"), Str("medium"))
      labels == OrElse(Field(issueData, "labels"), Arr(<<>>))
      fullName == JsToString(Field(repoData, "fullName"))
      name == JsToString(Field(repoData, "name"))
      num == JsToString(issueNumber)
  IN [summary |->
        "Issue #" \o num \o ": \"" \o JsToString(issueTitle) \o "\" in " \o fullName \o " is "
          \o (IF "good first issue" \in Range(labels.v)
              THEN "a great starting point for first-time contributors"
              ELSE "an opportunity to contribute to an active open-source project") \o ".",
      gettingStarted |->
        <<"Fork the repository to your GitHub account",
          "Clone your fork: ~git clone https://github.com/YOUR_USERNAME/" \o name \o ".git~",
          "Navigate to the project directory: ~cd " \o name \o "~",
          "Install dependencies (check README.md for specific instructions)",
          "Create a new branch: ~git checkout -b fix/issue-" \o num \o "~",
          "Read the issue description and comments thoroughly",
          "Make your changes addressing the issue requirements",
          "Test your changes locally",
          "Commit: ~git commit -m \"Fix #" \o num \o ": Brief description\"~",
          "Push and open a Pull Request referencing the issue">>,
      issueAnalysis |->
        [difficulty |-> difficulty,
         estimatedTime |-> EstimatedTime(difficulty),
         labels |-> labels],
      codeConventions |->
        <<"Read the CONTRIBUTING.md file if available",
          "Follow the existing code style in the project",
          "Write tests for new features when applicable",
          "Keep commits atomic and well-documented">>,
      tips |->
        <<"Comment on the issue to let maintainers know you're working on it",
          "Check if someone is already assigned or working on this issue",
          "Start with understanding the codebase structure",
          "Ask questions in issue comments if requirements are unclear",
          "Reference the issue number in your PR description",
          "Be patient with maintainers - they are often volunteers">>,
      resources |->
        <<[title |-> "View Issue on GitHub",
           url |-> "https://github.com/" \o fullName \o "/issues/" \o num],
          [title |-> "Repository README",
           url |-> "https://github.com/" \o fullName \o "#readme"],
          [title |-> "Pull Requests Guide",
           url |-> "https://docs.github.com/en/pull-requests"]>>]

\* the body of a successful AI-path guide response
AiGuideBody(data) == [success |-> TRUE, data |-> Field(data, "guide")]

\* a template response that carries no tag
TemplateBodyUntagged(guide) == [success |-> TRUE, data |-> Obj(guide)]

\* a template response that greets an authenticated user
TemplateBodyForUser(guide) ==
  [success |-> TRUE,
   data |-> Obj([guide EXCEPT !.tips = IF reqUser = Null THEN @ ELSE <<"Use your skills">> \o @]),
   isTemplate |-> TRUE]

\* the body of a template guide response
TemplateBody(guide) == [success |-> TRUE, data |-> Obj(guide), isTemplate |-> TRUE]

GuideFailure ==
  Reply(500, [success |-> FALSE, message |-> "Failed to generate contribution guide"])

\* optionalAuth, the precondition and the dispatch of the AI call
GuideBegin(auth, body) ==
  /\ CanBegin
  /\ UNCHANGED db
  /\ LET user == IF auth THEN db ELSE Null
     IN IF NoRepository(body)
        THEN EndsWith("guide", user, body,
                      Reply(400, [success |-> FALSE, message |-> "Repository data is required"]))
        ELSE /\ route' = "guide"
             /\ reqUser' = user
             /\ reqBody' = body
             /\ topSkills' = <<>>
             /\ aiResult' = NoResult
             /\ ghResult' = NoResult
             /\ calls' = <<AiCall("generate-guide",
                                  [repository |-> body.repoData,
                                   issue |-> OrElse(body.issueData, Null),
                                   userSkills |-> GuideUserSkills(user, body),
                                   userId |-> IF auth THEN Str(user._id) ELSE Undef])>>
             /\ res' = <<>>
             /\ pc' = "ai"

\* the AI call settles: the AI guide, the template guide, or the outer catch block's 500
GuideAiSettles(outcome) ==
  /\ pc = "ai"
  /\ route = "guide"
  /\ aiResult' = outcome
  /\ pc' = "done"
  /\ IF outcome.kind = "ok" /\ ~Throws(outcome.data)
     THEN res' = Append(res, Reply(200, AiGuideBody(outcome.data)))
     ELSE IF TemplateThrows(reqBody)
     THEN res' = Append(res, GuideFailure)
     ELSE res' = Append(res, Reply(200, TemplateBody(TemplateGuide(reqBody))))
  /\ UNCHANGED <<db, route, reqUser, reqBody, topSkills, ghResult, calls>>

\* POST /api/guide/generate arrives
PostGuideGenerate ==
  /\ CanBegin
  /\ \E auth \in BOOLEAN, body \in GuideBodies : GuideBegin(auth, body)
  /\ UNCHANGED <<seen, reqs>>

\* the AI service answers the generate-guide call, or the call fails
AiAnswersGuide ==
  /\ pc = "ai"
  /\ \E outcome \in GuideAiOutcomes : GuideAiSettles(outcome)
  /\ UNCHANGED <<seen, reqs>>

GuideNext == PostGuideGenerate \/ AiAnswersGuide

GuideSpec == Init /\ [][GuideNext \/ RequestEnds]_vars

----------------------------------------------------------------------------
(* Repeated guide requests: a client that keeps a template guide and asks again *)

\* the guide requests a client repeats
ReplayBodies ==
  {[repoData |-> r, issueData |-> i, userContext |-> c] :
     r \in {Obj([fullName |-> Str("facebook/react")]),
            Obj([fullName |-> Str("facebook/react"), name |-> Str("react")])},
     i \in {Undef,
            Obj([number |-> Num(42), title |-> Str("Fix bug"), difficulty |-> Str("easy"),
                 labels |-> Arr(<<"bug", "good first issue">>)])},
     c \in ContextInputs}

\* POST /api/guide/generate arrives again
PostGuideAgain ==
  /\ CanBegin
  /\ \E auth \in BOOLEAN, body \in ReplayBodies : GuideBegin(auth, body)
  /\ UNCHANGED <<seen, reqs>>

\* POST /api/skills arrives between two guide requests and adds one skill
PostOneSkill ==
  /\ CanBegin
  /\ AddSkills(TRUE, Arr(<<[name |-> "python", confidence |-> Undef, category |-> Undef]>>))
  /\ UNCHANGED <<seen, reqs>>

\* the client receives a template guide response and keeps it; the request is over
ClientKeepsGuide ==
  /\ pc = "done"
  /\ route = "guide"
  /\ Len(res) = 1
  /\ "isTemplate" \in DOMAIN res[1].body
  /\ seen' = [kind |-> "template",
              repoData |-> reqBody.repoData,
              issueData |-> reqBody.issueData,
              userContext |-> reqBody.userContext,
              user |-> reqUser,
              guide |-> res[1].body.data]
  /\ pc' = "idle"
  /\ route' = "none"
  /\ reqUser' = Null
  /\ reqBody' = Undef
  /\ topSkills' = <<>>
  /\ aiResult' = NoResult
  /\ ghResult' = NoResult
  /\ calls' = <<>>
  /\ res' = <<>>
  /\ UNCHANGED <<db, reqs>>

ReplayNext ==
  PostGuideAgain \/ AiAnswersGuide \/ PostOneSkill \/ ClientKeepsGuide \/ RequestEnds

ReplaySpec == Init /\ [][ReplayNext]_vars

----------------------------------------------------------------------------
(* Two skill requests side by side.  Each handler reads the document with     *)
(* findById, changes its copy and calls save(); between the read and the      *)
(* write the other request can read or write.  save() sends what the copy     *)
(* changed: a push for skills.push(...), the whole array for skills = [...].  *)
(* The document carries Mongoose's version key (the schema of part_000 does   *)
(* not switch it off): writing a whole array requires the version that was    *)
(* read and fails otherwise, a push does not; both advance the version.       *)

\* the lists stored before the two requests arrive
RaceBases ==
  {<<>>,
   <<[name |-> "react", confidence |-> 80, category |-> "Manual"]>>,
   <<[name |-> "react", confidence |-> 80, category |-> "Manual"],
     [name |-> "python", confidence |-> 80, category |-> "Manual"]>>}

RaceInit ==
  /\ db \in {[NewUser EXCEPT !.skills = l] : l \in RaceBases}
  /\ pc = "idle"
  /\ route = "none"
  /\ reqUser = Null
  /\ reqBody = Undef
  /\ topSkills = <<>>
  /\ aiResult = NoResult
  /\ ghResult = NoResult
  /\ calls = <<>>
  /\ res = <<>>
  /\ seen = NoResult
  /\ reqs = [r \in Slots |-> NoRequest]

\* the other requests that hold a copy read at the version now replaced
Outdated(r, advanced) ==
  [q \in Slots |->
     IF q # r /\ reqs[q].pc = "loaded" /\ advanced
     THEN [reqs[q] EXCEPT !.fresh = FALSE]
     ELSE reqs[q]]

\* a save that writes the request's whole copy of the list
PushSavedWholeList(stored, loaded, newSkills) == loaded \o newSkills

\* the stored list after save() of a copy that newSkills were pushed to
PushSaved(stored, loaded, newSkills) == stored \o newSkills

\* POST /api/skills with one skill: const user = await User.findById(req.user._id)
AddReads(r, name) ==
  /\ reqs[r].pc = "new"
  /\ reqs' = [reqs EXCEPT ![r] =
                [pc |-> "loaded", op |-> "add", arg |-> name, user |-> db.skills,
                 fresh |-> TRUE, status |-> 0, added |-> <<>>]]
  /\ UNCHANGED <<db, pc, route, reqUser, reqBody, topSkills, aiResult, ghResult, calls, res, seen>>

\* POST /api/skills: newSkills, user.skills.push(...newSkills), await user.save(), res.json;
\* whether a push of nothing advances the version is left open
AddSaves(r, advancesWhenEmpty) ==
  /\ reqs[r].pc = "loaded"
  /\ reqs[r].op = "add"
  /\ LET newSkills ==
           NewManualSkills(reqs[r].user,
                           <<[name |-> reqs[r].arg, confidence |-> Undef, category |-> Undef]>>)
         advanced == newSkills # <<>> \/ advancesWhenEmpty
     IN /\ db' = [db EXCEPT !.skills = PushSaved(db.skills, reqs[r].user, newSkills)]
        /\ reqs' = [Outdated(r, advanced) EXCEPT ![r] =
                      [@ EXCEPT !.pc = "done", !.status = 200, !.added = newSkills]]
  /\ UNCHANGED <<pc, route, reqUser, reqBody, topSkills, aiResult, ghResult, calls, res, seen>>

\* DELETE /api/skills/:skillName: findById, the filter, and the 404 when nothing matched
DeleteReads(r, name) ==
  /\ reqs[r].pc = "new"
  /\ LET found == Len(KeptSkills(db.skills, name)) # Len(db.skills)
     IN reqs' = [reqs EXCEPT ![r] =
                   [pc |-> IF found THEN "loaded" ELSE "done", op |-> "delete", arg |-> name,
                    user |-> db.skills, fresh |-> TRUE,
                    status |-> IF found THEN 0 ELSE 404, added |-> <<>>]]
  /\ UNCHANGED <<db, pc, route, reqUser, reqBody, topSkills, aiResult, ghResult, calls, res, seen>>

\* DELETE /api/skills/:skillName: await user.save() of the filtered array, res.json, or
\* the catch block's 500 when the version read is no longer the stored one
DeleteSaves(r) ==
  /\ reqs[r].pc = "loaded"
  /\ reqs[r].op = "delete"
  /\ IF reqs[r].fresh
     THEN /\ db' = [db EXCEPT !.skills = KeptSkills(reqs[r].user, reqs[r].arg)]
          /\ reqs' = [Outdated(r, TRUE) EXCEPT ![r] = [@ EXCEPT !.pc = "done", !.status = 200]]
     ELSE /\ reqs' = [reqs EXCEPT ![r] = [@ EXCEPT !.pc = "done", !.status = 500]]
          /\ UNCHANGED db
  /\ UNCHANGED <<pc, route, reqUser, reqBody, topSkills, aiResult, ghResult, calls, res, seen>>

\* a POST /api/skills arrives and reads the document
AddSkillReads ==
  /\ \E r \in Slots : reqs[r].pc = "new"
  /\ \E r \in Slots, name \in Names : AddReads(r, name)

\* the save of a POST /api/skills is applied
AddSkillSaves ==
  /\ \E r \in Slots : reqs[r].pc = "loaded"
  /\ \E r \in Slots, advancesWhenEmpty \in BOOLEAN : AddSaves(r, advancesWhenEmpty)

\* a DELETE /api/skills/:skillName arrives and reads the document
DeleteSkillReads ==
  /\ \E r \in Slots : reqs[r].pc = "new"
  /\ \E r \in Slots, name \in Names : DeleteReads(r, name)

\* the save of a DELETE /api/skills/:skillName is applied or refused
DeleteSkillSaves ==
  /\ \E r \in Slots : reqs[r].pc = "loaded"
  /\ \E r \in Slots : DeleteSaves(r)

RaceNext == AddSkillReads \/ AddSkillSaves \/ DeleteSkillReads \/ DeleteSkillSaves

RaceSpec == RaceInit /\ [][RaceNext]_vars

\* both orchestrators side by side, for a user with and without a stored skill
OrchestratorNext == PostOneSkill \/ RecommendNext \/ GuideNext \/ RequestEnds

OrchestratorSpec == Init /\ [][OrchestratorNext]_vars

\* the orchestrators when every upstream call settles: the AI calls carry a
\* timeout, the GitHub call resolves or rejects with its connection
ResponseSpec ==
  /\ Init
  /\ [][OrchestratorNext]_vars
  /\ WF_vars(AiAnswersRecommend)
  /\ WF_vars(GithubAnswersSearch)
  /\ WF_vars(AiAnswersGuide)

\* POST /api/skills arrives
PostSkills ==
  /\ CanBegin
  /\ \E auth \in BOOLEAN, body \in ManualBodies : AddSkills(auth, body)
  /\ UNCHANGED <<seen, reqs>>

\* DELETE /api/skills/:skillName arrives
DeleteSkillByName ==
  /\ CanBegin
  /\ \E auth \in BOOLEAN, skillName \in Names : DeleteSkill(auth, skillName)
  /\ UNCHANGED <<seen, reqs>>

\* POST /api/skills/extract-resume arrives and its AI call settles
PostExtractResume ==
  /\ CanBegin
  /\ \E auth \in BOOLEAN, file \in ResumeFiles, outcome \in ExtractAiOutcomes :
       ExtractResume(auth, file, outcome)
  /\ UNCHANGED <<seen, reqs>>

\* POST /api/resume/upload arrives and its AI call settles
PostResumeUpload ==
  /\ CanBegin
  /\ \E auth \in BOOLEAN, file \in ResumeFiles, outcome \in UploadAiOutcomes :
       UploadResume(auth, file, outcome)
  /\ UNCHANGED <<seen, reqs>>

\* GET /api/skills arrives
GetSkillsList ==
  /\ CanBegin
  /\ \E auth \in BOOLEAN : GetSkills(auth)
  /\ UNCHANGED <<seen, reqs>>

\* GET /api/resume/skills arrives
GetResumeSkillsList ==
  /\ CanBegin
  /\ \E auth \in BOOLEAN : GetResumeSkills(auth)
  /\ UNCHANGED <<seen, reqs>>

\* DELETE /api/skills/all arrives
DeleteAllSkills ==
  /\ CanBegin
  /\ \E auth \in BOOLEAN : DeleteAll(auth)
  /\ UNCHANGED <<seen, reqs>>

\* a request arrives that no route matches
UnroutedRequest ==
  /\ CanBegin
  /\ \E request \in Requests : RouteNotFound(request)
  /\ UNCHANGED <<seen, reqs>>

SkillsNext ==
  \/ GetSkillsList
  \/ GetResumeSkillsList
  \/ PostSkills
  \/ DeleteSkillByName
  \/ DeleteAllSkills
  \/ PostExtractResume
  \/ PostResumeUpload

Next == SkillsNext \/ RecommendNext \/ UnroutedRequest \/ RequestEnds

Spec == Init /\ [][Next]_vars

----------------------------------------------------------------------------
(* Contribution calendar: GET /api/auth/contributions *)

\* the contributionCount values of a day: none, some
DayCounts == {0, 2}

\* a week of the calendar: its contributionDays, oldest first
CalendarWeeks == UNION {[1..n -> DayCounts] : n \in 1..MaxWeekDays}

RECURSIVE Sum(_)
Sum(counts) == IF counts = <<>> THEN 0 ELSE Head(counts) + Sum(Tail(counts))

RECURSIVE FlatMap(_)
\* weeks.flatMap(week => week.contributionDays)
FlatMap(weeks) == IF weeks = <<>> THEN <<>> ELSE Head(weeks) \o FlatMap(Tail(weeks))

\* a GraphQL answer that carries the calendar of the user
GraphqlCalendar(weeks) ==
  GhOk(Obj([data |-> Obj([user |-> Obj([weeks |-> weeks,
                                        totalContributions |-> Sum(FlatMap(weeks))])])]))

\* how the GraphQL call can settle: a failed request, a body with errors, an
\* unknown login, a calendar
GraphqlOutcomes ==
  {GhFailed,
   GhOk(Obj([errors |-> Arr(<<"Bad credentials">>)])),
   GhOk(Obj([data |-> Obj([user |-> Null])]))}
    \cup {GraphqlCalendar(weeks) : weeks \in SeqsUpTo(CalendarWeeks, MaxWeeks)}

\* the call resolved with a calendar: no errors, and data.user is not null
CalendarReturned(outcome) ==
  /\ outcome.kind = "ok"
  /\ ~Truthy(Field(outcome.data, "errors"))
  /\ Field(Field(outcome.data, "data"), "user").t = "object"

RECURSIVE StreakLoop(_, _, _)
\* the for loop from i down to 0 over the day counts, st the three counters;
\* i is one-based here, so i === days.length - 1 reads i = Len(days)
StreakLoop(days, i, st) ==
  IF i < 1
  THEN st
  ELSE IF days[i] > 0
  THEN LET tempStreak == st.tempStreak + 1
       IN StreakLoop(days, i - 1,
                     [st EXCEPT !.tempStreak = tempStreak,
                                !.currentStreak = IF i = Len(days) THEN tempStreak ELSE @])
  ELSE StreakLoop(days, i - 1,
                  [st EXCEPT !.longestStreak = IF @ > st.tempStreak THEN @ ELSE st.tempStreak,
                             !.tempStreak = 0])

\* the streaks of the stats object
Streaks(days) ==
  LET st == StreakLoop(days, Len(days),
                       [currentStreak |-> 0, longestStreak |-> 0, tempStreak |-> 0])
  IN [currentStreak |-> st.currentStreak,
      longestStreak |-> IF st.longestStreak > st.tempStreak
                        THEN st.longestStreak ELSE st.tempStreak]

\* the level of a day in the response
Level(count) ==
  IF count = 0 THEN 0
  ELSE IF count < 3 THEN 1
  ELSE IF count < 6 THEN 2
  ELSE IF count < 10 THEN 3
  ELSE 4

\* the body of a successful contributions response
ContributionsBody(calendar) ==
  LET days == FlatMap(calendar.weeks)
  IN [success |-> TRUE,
      data |-> [weeks |-> [w \in 1..Len(calendar.weeks) |->
                            [d \in 1..Len(calendar.weeks[w]) |->
                               [count |-> calendar.weeks[w][d],
                                level |-> Level(calendar.weeks[w][d])]]],
                stats |-> [total |-> calendar.totalContributions,
                           currentStreak |-> Streaks(days).currentStreak,
                           longestStreak |-> Streaks(days).longestStreak]]]

ContributionsFailure ==
  Reply(500, [success |-> FALSE, message |-> "Failed to fetch contribution data"])

\* the handler's own check of the session and the dispatch of the GraphQL call
ContributionsBegin(auth) ==
  /\ CanBegin
  /\ UNCHANGED db
  /\ IF ~auth
     THEN EndsWith("auth.contributions", Null, Undef,
                   Reply(401, [success |-> FALSE, message |-> "Not authenticated"]))
     ELSE /\ route' = "auth.contributions"
          /\ reqUser' = db
          /\ reqBody' = Undef
          /\ topSkills' = <<>>
          /\ aiResult' = NoResult
          /\ ghResult' = NoResult
          /\ calls' = <<[svc |-> "github", op |-> "graphql",
                         payload |-> [username |-> db.username, token |-> db.accessToken]]>>
          /\ res' = <<>>
          /\ pc' = "github"

\* the GraphQL call settles: the calendar with its streaks, or the catch block's 500
ContributionsSettle(outcome) ==
  /\ pc = "github"
  /\ route = "auth.contributions"
  /\ ghResult' = outcome
  /\ pc' = "done"
  /\ IF CalendarReturned(outcome)
     THEN res' = Append(res, Reply(200, ContributionsBody(outcome.data.v.data.v.user.v)))
     ELSE res' = Append(res, ContributionsFailure)
  /\ UNCHANGED <<db, route, reqUser, reqBody, topSkills, aiResult, calls>>

\* GET /api/auth/contributions arrives
GetContributions ==
  /\ CanBegin
  /\ \E auth \in BOOLEAN : ContributionsBegin(auth)
  /\ UNCHANGED <<seen, reqs>>

\* GitHub answers the GraphQL call, or the call fails
GithubAnswersGraphql ==
  /\ pc = "github"
  /\ \E outcome \in GraphqlOutcomes : ContributionsSettle(outcome)
  /\ UNCHANGED <<seen, reqs>>

ContributionsNext == GetContributions \/ GithubAnswersGraphql \/ RequestEnds

ContributionsSpec == Init /\ [][ContributionsNext]_vars

----------------------------------------------------------------------------
(* Properties of the recommendation orchestrator (checked under Spec) *)

\* a recommend request of an authenticated user has reached its handler
InRecommend == route = "recommend" /\ reqUser # Null

RecommendDone == InRecommend /\ pc = "done"

\* the request's AI call settled with a 2xx response that has a body
AiCallOk == aiResult.kind = "ok" /\ aiResult.data.t = "object"

\* the request's AI call settled with a 2xx response that carries a recommendations list
AiListed == AiCallOk /\ Field(aiResult.data, "recommendations").t = "array"

\* the request's AI call settled otherwise
AiCallFailed == aiResult.kind \in {"refused", "timeout", "status"} \/ (aiResult.kind = "ok" /\ ~AiCallOk)

\* the request's GitHub search settled with a 2xx response that lists items
SearchOk ==
  /\ ghResult.kind = "ok"
  /\ ghResult.data.t = "object"
  /\ "items" \in DOMAIN ghResult.data.v
  /\ ghResult.data.v.items.t = "array"

SearchFailed == ghResult.kind \in {"error", "ok"} /\ ~SearchOk

GithubCalled == \E i \in 1..Len(calls) : calls[i].svc = "github"

\* C1: a user whose skill list is empty gets HTTP 400 from the recommend
\* operation, and the request calls neither the AI service nor the GitHub API.
C1_EmptySkillsRejected ==
  (InRecommend /\ reqUser.skills = <<>>) =>
    /\ pc = "done"
    /\ Len(res) = 1
    /\ res[1].status = 400
    /\ res[1].body.success = FALSE
    /\ calls = <<>>

C1_Witness ==
  /\ RecommendDone
  /\ reqUser.skills = <<>>
  /\ db.skills = <<>>
  /\ Len(res) = 1

\* C2 as stated: with a non-empty skill list the operation returns a non-empty
\* result list whenever the AI call succeeds (it returns its recommendations
\* list) or the fallback search succeeds, and fails with HTTP 500 only when
\* both fail.
C2_NonEmptyResult ==
  (RecommendDone /\ reqUser.skills # <<>>) =>
    /\ (AiListed \/ SearchOk) =>
         /\ Len(res) = 1
         /\ res[1].status = 200
         /\ res[1].body.data.t = "array"
         /\ Len(res[1].body.data.v) > 0
    /\ (Len(res) = 1 /\ res[1].status = 500) => (AiCallFailed /\ SearchFailed)

\* C2 amended: with a non-empty skill list the operation returns a result
\* list, which may be empty, with HTTP 200 whenever the AI call returns its
\* recommendations list or the fallback search returns its items, and fails
\* with HTTP 500 only when both the AI call and the fallback search fail.
C2_ResultUnlessBothFail ==
  (RecommendDone /\ reqUser.skills # <<>>) =>
    /\ (AiListed \/ SearchOk) =>
         /\ Len(res) = 1
         /\ res[1].status = 200
         /\ res[1].body.success = TRUE
         /\ res[1].body.data.t = "array"
    /\ (Len(res) = 1 /\ res[1].status = 500) => (AiCallFailed /\ SearchFailed)

C2_Witness ==
  /\ RecommendDone
  /\ reqUser.skills # <<>>
  /\ AiCallFailed
  /\ SearchOk
  /\ res[1].status = 200
  /\ res[1].body.data = Arr(<<>>)

\* an AI-service error as the specification lists them: a timeout, a refused
\* connection, a non-2xx status, or a body that carries no recommendations list
AiServiceError ==
  \/ aiResult.kind \in {"refused", "timeout", "status"}
  \/ /\ aiResult.kind = "ok"
     /\ Field(aiResult.data, "recommendations").t # "array"

\* C3 as stated: every AI-service error, a malformed 2xx body included, makes
\* the recommend operation enter the GitHub-search fallback.
C3_FallbackOnAnyAiError ==
  (InRecommend /\ AiServiceError) => GithubCalled

\* C4: when the AI call succeeds the response data is the AI service's
\* recommendations list itself, in its order, and GitHub is not called.
C4_AiListVerbatim ==
  (RecommendDone /\ AiListed) =>
    /\ Len(res) = 1
    /\ res[1].status = 200
    /\ res[1].body.success = TRUE
    /\ res[1].body.data = aiResult.data.v.recommendations
    /\ ~GithubCalled
    /\ ghResult = NoResult

C4_Witness ==
  /\ RecommendDone
  /\ AiListed
  /\ Len(res[1].body.data.v) = 2
  /\ res[1].body.data.v[1].matchScore < res[1].body.data.v[2].matchScore

\* C5: when the AI call and the fallback search both fail the operation answers
\* HTTP 500 with success = false and no result list, and the failed search is
\* the request's last upstream call.
C5_BothFail ==
  (RecommendDone /\ AiCallFailed /\ SearchFailed) =>
    /\ Len(res) = 1
    /\ res[1].status = 500
    /\ res[1].body.success = FALSE
    /\ "data" \notin DOMAIN res[1].body
    /\ Len(calls) = 2
    /\ calls[1].svc = "ai"
    /\ calls[2].svc = "github"

C5_Witness ==
  /\ RecommendDone
  /\ aiResult.kind = "timeout"
  /\ ghResult.kind = "error"
  /\ Len(res) = 1

\* C6: in a fallback list the item at zero-based index i has
\* matchScore = 95 - 5*i, and scores never increase with rank.
C6_FallbackScores ==
  (RecommendDone /\ SearchOk) =>
    LET list == res[1].body.data.v
    IN /\ \A i \in 1..Len(list) : list[i].matchScore = 95 - 5 * (i - 1)
       /\ \A i \in 1..(Len(list) - 1) : list[i].matchScore >= list[i + 1].matchScore

C6_Witness ==
  /\ RecommendDone
  /\ SearchOk
  /\ Len(res[1].body.data.v) >= 2

\* C7: no step of a recommend request changes the persisted user document,
\* its skill list (content and order) and its resume record included.
C7_RecommendReadOnly == [][(route' = "recommend") => (db' = db)]_vars

C7_Witness ==
  /\ RecommendDone
  /\ reqUser.skills # db.skills
  /\ db.resume # Undef
  /\ Len(res) = 1

\* the skill at index i comes before the skill at index j in the ranking
Outranks(skills, i, j) ==
  \/ skills[i].confidence > skills[j].confidence
  \/ skills[i].confidence = skills[j].confidence /\ i < j

\* the one-based rank of the skill at index i
Rank(skills, i) == 1 + Cardinality({j \in 1..Len(skills) : Outranks(skills, j, i)})

\* C18: the query basis is the names of the five skills of highest confidence
\* (all of them when there are fewer), highest first, equal confidences in
\* insertion order; it is what the AI service is asked with.
C18_TopFiveStable ==
  (InRecommend /\ db.skills # <<>>) =>
    /\ Len(topSkills) = (IF Len(db.skills) < 5 THEN Len(db.skills) ELSE 5)
    /\ \A i \in 1..Len(db.skills) :
         Rank(db.skills, i) <= 5 => topSkills[Rank(db.skills, i)] = db.skills[i].name
    /\ calls[1].svc = "ai"
    /\ calls[1].payload.skills = topSkills

C18_Witness ==
  /\ InRecommend
  /\ Len(db.skills) = 6
  /\ [i \in 1..6 |-> db.skills[i].confidence] = <<70, 90, 70, 90, 70, 70>>
  /\ topSkills = <<"skill2", "skill4", "skill1", "skill3", "skill5">>

\* C8 as stated: every successful recommendation response carries a flag
\* that tells an AI-sourced result from a fallback result.
C8_SourceFlag ==
  (RecommendDone /\ Len(res) = 1 /\ res[1].status = 200) =>
    \E k \in DOMAIN res[1].body \ {"success", "data", "message"} : TRUE

----------------------------------------------------------------------------
(* Properties of the guide orchestrator (checked under GuideSpec) *)

GuideDone == route = "guide" /\ pc = "done"

TemplateTagged(body) == "isTemplate" \in DOMAIN body /\ body.isTemplate = TRUE

\* C9: a successful guide response is tagged isTemplate = true exactly when
\* its guide is the template fallback's; the AI service's guide is never tagged.
C9_TemplateTag ==
  (GuideDone /\ Len(res) = 1 /\ res[1].status = 200) =>
    /\ TemplateTagged(res[1].body) <=> AiCallFailed
    /\ AiCallFailed => res[1].body.data = Obj(TemplateGuide(reqBody))
    /\ AiCallOk =>
         /\ res[1].body.data = Field(aiResult.data, "guide")
         /\ "isTemplate" \notin DOMAIN res[1].body

C9_Witness ==
  /\ GuideDone
  /\ aiResult.kind = "refused"
  /\ Len(res) = 1
  /\ res[1].status = 200
  /\ TemplateTagged(res[1].body)

\* the request names no repository: repoData is missing or has no fullName
RepositoryMissing ==
  \/ reqBody.repoData.t # "object"
  \/ "fullName" \notin DOMAIN reqBody.repoData.v
  \/ reqBody.repoData.v.fullName = Str("")

C11_TemplateCannotFail ==
  (GuideDone /\ ~RepositoryMissing) =>
    /\ Len(res) = 1
    /\ res[1].status = 200
    /\ res[1].body.success = TRUE
    /\ "data" \in DOMAIN res[1].body

\* the request was answered with the template guide
TemplateAnswered ==
  /\ GuideDone
  /\ Len(res) = 1
  /\ res[1].status = 200
  /\ "isTemplate" \in DOMAIN res[1].body

\* the client kept a template guide for the (repository, issue) it now asked for again
AskedAgain ==
  /\ seen.kind = "template"
  /\ seen.repoData = reqBody.repoData
  /\ seen.issueData = reqBody.issueData

\* C12: under the template path two calls with the same (repository, issue)
\* input get the same template guide, whatever the user's skills, the user's
\* identity and the calls made in between.
C12_TemplateDeterministic ==
  (TemplateAnswered /\ AskedAgain) => res[1].body.data = seen.guide

C12_Witness ==
  /\ TemplateAnswered
  /\ AskedAgain
  /\ reqUser # Null
  /\ seen.user # reqUser
  /\ reqUser.skills # <<>>
  /\ seen.userContext # reqBody.userContext
  /\ res[1].body.data = seen.guide

----------------------------------------------------------------------------
(* Properties of the skill store (checked under Spec) *)

\* no request is half-way through
Completed == pc \in {"idle", "done"}

\* C13 as stated: after any sequence of completed skill operations no two
\* skills of the user have names that are equal ignoring case.
C13_NamesUniqueIgnoringCase ==
  Completed =>
    \A i, j \in 1..Len(db.skills) :
      (i # j) => Lower(db.skills[i].name) # Lower(db.skills[j].name)

\* the names of a skill list, lower-cased
LowerNames(skills) == {Lower(skills[i].name) : i \in 1..Len(skills)}

\* the step is an authenticated POST /api/skills that passes the array check
AddStep ==
  /\ pc = "idle"
  /\ route' = "skills.add"
  /\ reqUser' # Null
  /\ reqBody'.t = "array"
  /\ Len(reqBody'.v) > 0

\* C14: a posted skill whose name equals, ignoring case, the name of a stored
\* skill is not inserted; when every posted skill collides the stored list is
\* unchanged and the response reports an empty added list.
C14_AddIdempotentOnCollision ==
  [][AddStep =>
       LET added == res'[1].body.data.added
       IN /\ res'[1].status = 200
          /\ LowerNames(added) \cap LowerNames(db.skills) = {}
          /\ db'.skills = db.skills \o added
          /\ res'[1].body.data.skills = db'.skills
          /\ (LowerNames(reqBody'.v) \subseteq LowerNames(db.skills)) =>
               (added = <<>> /\ db' = db)]_vars

C14_Witness ==
  /\ route = "skills.add"
  /\ pc = "done"
  /\ reqBody = Arr(<<[name |-> "React", confidence |-> Undef, category |-> Undef]>>)
  /\ Len(db.skills) = 1
  /\ db.skills[1].name = "react"
  /\ Len(res) = 1
  /\ res[1].status = 200
  /\ res[1].body.data.added = <<>>

\* the step is an authenticated DELETE /api/skills/:skillName
DeleteStep ==
  /\ pc = "idle"
  /\ route' = "skills.delete"
  /\ reqUser' # Null

\* C15: deleting by a name that matches no stored skill, ignoring case, is
\* answered HTTP 404 and leaves the stored user document as it was.
C15_DeleteMissingIsNotFound ==
  [][(DeleteStep /\ Lower(reqBody'.v) \notin LowerNames(db.skills)) =>
       /\ Len(res') = 1
       /\ res'[1].status = 404
       /\ res'[1].body.success = FALSE
       /\ db' = db]_vars

C15_Witness ==
  /\ route = "skills.delete"
  /\ pc = "done"
  /\ reqUser # Null
  /\ reqBody = Str("python")
  /\ Len(db.skills) = 2
  /\ LowerNames(db.skills) = {"react"}
  /\ Len(res) = 1
  /\ res[1].status = 404

\* an authenticated DELETE /api/skills/all has been answered
ClearAllDone ==
  /\ pc = "done"
  /\ reqUser # Null
  /\ \/ route = "skills.clear"
     \/ route = "skills.delete" /\ reqBody = Str(ClearAllPath[3])

\* C16 as stated: after an authenticated DELETE /api/skills/all the stored
\* skill list is empty and no resume record remains, whatever was stored before.
C16_ClearAllEmpties ==
  ClearAllDone => (db.skills = <<>> /\ db.resume \in {Null, Undef})

----------------------------------------------------------------------------
(* Properties of the routing (checked under Spec) *)

\* C17 as stated: a request for an endpoint of the README's API table is
\* dispatched to a route's handler and never reaches the 404 handler.
C17_ReadmeEndpointsServed ==
  (route = "notFound") => (reqBody \notin ReadmeEndpoints)

----------------------------------------------------------------------------
(* Properties of both orchestrators (checked under OrchestratorSpec) *)

InOrchestrator == route \in {"recommend", "guide"}

CallsTo(svc) == {i \in 1..Len(calls) : calls[i].svc = svc}

\* the AI call was rejected, or its response could not be read
AiCallThrew ==
  \/ aiResult.kind \in {"refused", "timeout", "status"}
  \/ aiResult.kind = "ok" /\ Throws(aiResult.data)

\* C19: within one recommend or guide request the AI service is called at
\* most once, the fallback is entered at most once and only after that call
\* has failed, the GitHub search never precedes or overlaps the AI call, and
\* no upstream call is repeated.
C19_SequentialOneShot ==
  InOrchestrator =>
    /\ Cardinality(CallsTo("ai")) <= 1
    /\ Cardinality(CallsTo("github")) <= 1
    /\ Len(res) <= 1
    /\ (route = "guide") => (CallsTo("github") = {})
    /\ (CallsTo("github") # {}) =>
         (CallsTo("ai") = {1} /\ CallsTo("github") = {2} /\ AiCallThrew)
    /\ (pc = "ai") => (Len(calls) = 1 /\ aiResult = NoResult /\ ghResult = NoResult)
    /\ (pc = "github") => (aiResult # NoResult /\ ghResult = NoResult /\ res = <<>>)
    /\ (ghResult # NoResult) => (CallsTo("github") # {})
    /\ (aiResult # NoResult) => (CallsTo("ai") # {})

C19_Witness ==
  /\ RecommendDone
  /\ aiResult.kind = "timeout"
  /\ Len(calls) = 2
  /\ calls[2].svc = "github"
  /\ SearchOk
  /\ Len(res) = 1
  /\ res[1].status = 200

----------------------------------------------------------------------------
(* Properties of concurrent skill requests (checked under RaceSpec) *)

\* both requests read the same stored list, changed it and were answered
Overlapped ==
  /\ \A r \in Slots : reqs[r].pc = "done" /\ reqs[r].op \in {"add", "delete"}
  /\ reqs[1].user = reqs[2].user
  /\ \A r \in Slots : reqs[r].op = "add" => reqs[r].added # <<>>
  /\ \A r \in Slots : reqs[r].op = "delete" => reqs[r].status # 404

BothSucceeded == \A r \in Slots : reqs[r].status = 200

\* the stored list shows what request r did
Reflects(r) ==
  IF reqs[r].op = "add"
  THEN \A k \in 1..Len(reqs[r].added) : reqs[r].added[k] \in Range(db.skills)
  ELSE Lower(reqs[r].arg) \notin LowerNames(db.skills)

GivenDifficulty ==
  IF reqBody.issueData.t = "object" /\ "difficulty" \in DOMAIN reqBody.issueData.v
  THEN reqBody.issueData.v.difficulty
  ELSE Undef

\* the issueAnalysis of the template guide the request was answered with
Analysis == res[1].body.data.v.issueAnalysis

TimeFor(difficulty) ==
  CASE difficulty = Str("easy") -> "1-3 hours"
    [] difficulty = Str("medium") -> "3-8 hours"
    [] OTHER -> "1-3 days"

\* C21 as stated: in a template guide issueAnalysis.difficulty is the issue's
\* difficulty, or "medium" when the issue or its difficulty is absent, and
\* estimatedTime is "1-3 hours" for "easy", "3-8 hours" for "medium" and
\* "1-3 days" for every other difficulty.
C21_DifficultyOrMedium ==
  TemplateAnswered =>
    /\ Analysis.difficulty =
         IF GivenDifficulty \in {Undef, Null} THEN Str("medium") ELSE GivenDifficulty
    /\ Analysis.estimatedTime = TimeFor(Analysis.difficulty)

\* C21 amended: in a template guide issueAnalysis.difficulty is the issue's
\* difficulty, or "medium" when the issue is absent or its difficulty is
\* absent or falsy (the empty string), and estimatedTime is "1-3 hours" for
\* "easy", "3-8 hours" for "medium" and "1-3 days" for every other difficulty.
C21_DifficultyOrMediumWhenFalsy ==
  TemplateAnswered =>
    /\ Analysis.difficulty =
         IF GivenDifficulty \in {Undef, Null, Str("")} THEN Str("medium")
         ELSE GivenDifficulty
    /\ Analysis.estimatedTime = TimeFor(Analysis.difficulty)

C21_Witness ==
  /\ TemplateAnswered
  /\ GivenDifficulty = Str("hard")
  /\ Analysis.difficulty = Str("hard")
  /\ Analysis.estimatedTime = "1-3 days"

\* an authenticated POST /api/skills was answered 200
AddDone ==
  /\ route = "skills.add"
  /\ pc = "done"
  /\ Len(res) = 1
  /\ res[1].status = 200

\* the stored form the caller asked for: the specified fields, 80 and
\* "Manual" for the fields left unspecified
AsSpecified(posted) ==
  [name |-> posted.name,
   confidence |-> IF posted.confidence = Undef THEN 80 ELSE posted.confidence.v,
   category |-> IF posted.category = Undef THEN "Manual" ELSE posted.category.v]

\* C22 as stated: every skill inserted by POST /api/skills is stored with the
\* confidence and category the caller specified, and with confidence 80 and
\* category "Manual" only for a field the caller left unspecified, for every
\* specified confidence in 0..100.
C22_SpecifiedFieldsStored ==
  AddDone =>
    LET added == res[1].body.data.added
    IN \A i \in 1..Len(added) :
         /\ added[i] \in Range(db.skills)
         /\ \E k \in 1..Len(reqBody.v) : added[i] = AsSpecified(reqBody.v[k])

\* the skill's name differs from the requested name even when case is ignored
OtherName(skill) == Lower(skill.name) # Lower(reqBody'.v)

\* C23: a successful skill delete removes every skill whose name equals the
\* requested name ignoring case and nothing else: the other skills stay in the
\* stored list with their fields and their relative order unchanged.
C23_DeleteRemovesOnlyMatches ==
  [][(DeleteStep /\ res'[1].status = 200) =>
       /\ db'.skills = SelectSeq(db.skills, OtherName)
       /\ db' = [db EXCEPT !.skills = db'.skills]
       /\ Len(db'.skills) < Len(db.skills)
       /\ res'[1].body.data.skills = db'.skills]_vars

C23_Witness ==
  /\ route = "skills.delete"
  /\ pc = "done"
  /\ reqBody = Str("react")
  /\ Len(res) = 1
  /\ res[1].status = 200
  /\ Len(db.skills) = 1
  /\ db.skills[1].name = "python"
  /\ res[1].body.data.skills = db.skills

\* a recommend request answered by the fallback: the AI call failed, the search listed items
FallbackAnswered ==
  /\ RecommendDone
  /\ AiCallFailed
  /\ SearchOk
  /\ Len(res) = 1
  /\ res[1].status = 200

\* the items GitHub returned to the request
Returned == ghResult.data.v.items.v

\* the stored skill of highest confidence, the earliest inserted of equals
Best == CHOOSE i \in 1..Len(db.skills) : Rank(db.skills, i) = 1

\* C24: when the AI service is down and the GitHub search succeeds, recommend
\* returns at most 10 repositories in the order GitHub returned them, stars
\* descending, and every item's matchReason names the user's single
\* highest-confidence skill, the earliest inserted among equal confidences.
C24_FallbackListing ==
  FallbackAnswered =>
    LET list == res[1].body.data.v
    IN /\ Len(list) <= 10
       /\ Len(list) = Len(Returned)
       /\ \A i \in 1..Len(list) :
            /\ list[i].id = Returned[i].id
            /\ list[i].fullName = Returned[i].full_name
            /\ list[i].stars = Returned[i].stargazers_count
            /\ list[i].matchReason = "Matches your " \o db.skills[Best].name \o " skills"
       /\ \A i, j \in 1..Len(list) : (i < j) => list[i].stars >= list[j].stars
       /\ calls[2].payload.sort = "stars"
       /\ calls[2].payload.order = "desc"

C24_Witness ==
  /\ FallbackAnswered
  /\ aiResult.kind = "refused"
  /\ Len(res[1].body.data.v) = 10
  /\ Len(db.skills) = 3
  /\ [i \in 1..3 |-> db.skills[i].confidence] = <<70, 90, 90>>
  /\ res[1].body.data.v[10].matchReason = "Matches your skill2 skills"

\* C25: every matchScore of a fallback recommendation list lies in 0..100,
\* for every number of hits the GitHub search response can contain.
C25_MatchScoreInRange ==
  FallbackAnswered =>
    \A i \in 1..Len(res[1].body.data.v) :
      /\ res[1].body.data.v[i].matchScore >= 0
      /\ res[1].body.data.v[i].matchScore <= 100

C25_Witness ==
  /\ FallbackAnswered
  /\ Len(Returned) = 10
  /\ res[1].body.data.v[1].matchScore = 95
  /\ res[1].body.data.v[10].matchScore = 50

\* the routes registered behind the isAuthenticated middleware
PrivateRoutes ==
  {"recommend", "skills.get", "skills.add", "skills.delete", "skills.clear",
   "skills.extract", "resume.upload", "resume.skills"}

\* the step begins a request on a private route that carries no authenticated user
UnauthenticatedStep ==
  /\ pc = "idle"
  /\ route' \in PrivateRoutes
  /\ reqUser' = Null

\* C26: every private route answers an unauthenticated request with HTTP 401
\* before its handler runs: the request makes no upstream call and the user
\* document is neither loaded nor written.
C26_PrivateRoutesGuarded ==
  [][UnauthenticatedStep =>
       /\ pc' = "done"
       /\ res' = <<Unauthorized>>
       /\ res'[1].status = 401
       /\ calls' = <<>>
       /\ aiResult' = NoResult
       /\ ghResult' = NoResult
       /\ db' = db]_vars

C26_Witness ==
  /\ route = "resume.upload"
  /\ pc = "done"
  /\ reqUser = Null
  /\ reqBody = Obj([originalname |-> "cv.pdf"])
  /\ db.skills # <<>>
  /\ res = <<Unauthorized>>
  /\ calls = <<>>

\* a contributions request answered with the calendar
CalendarAnswered ==
  /\ route = "auth.contributions"
  /\ pc = "done"
  /\ Len(res) = 1
  /\ res[1].status = 200

\* the day counts the request's calendar holds, oldest first
CalendarDays == FlatMap(ghResult.data.v.data.v.user.v.weeks)

\* the days from a to b all have contributions
RunOfDays(days, a, b) == \A i \in a..b : days[i] > 0

\* the length of the longest run of contributing days that ends at the last day
TrailingRun(days) ==
  CHOOSE k \in 0..Len(days) :
    /\ RunOfDays(days, Len(days) - k + 1, Len(days))
    /\ (k < Len(days)) => days[Len(days) - k] = 0

\* the length of the longest run of contributing days anywhere
LongestRun(days) ==
  CHOOSE k \in 0..Len(days) :
    /\ \E a \in 1..(Len(days) - k + 1) : RunOfDays(days, a, a + k - 1)
    /\ \A m \in (k + 1)..Len(days) :
         \A a \in 1..(Len(days) - m + 1) : ~RunOfDays(days, a, a + m - 1)

\* C27 as stated: for every sequence of contribution days currentStreak is
\* the length of the maximal run of consecutive contributing days that ends at
\* the most recent day, longestStreak is the length of the longest such run
\* anywhere in the sequence, and currentStreak <= longestStreak.
C27_Streaks ==
  CalendarAnswered =>
    LET stats == res[1].body.data.stats
    IN /\ stats.currentStreak = TrailingRun(CalendarDays)
       /\ stats.longestStreak = LongestRun(CalendarDays)
       /\ stats.currentStreak <= stats.longestStreak

\* the step serves a POST /api/resume/upload and answers it with an error status
UploadErrorStep ==
  /\ pc = "idle"
  /\ route' = "resume.upload"
  /\ Len(res') = 1
  /\ res'[1].status >= 400

\* C28 as stated: an upload request that ends with an error response (HTTP 4xx
\* or 5xx) leaves the user's stored skill list and resume record unchanged,
\* whatever the AI service returned or however it failed.
C28_UploadErrorLeavesStore ==
  [][UploadErrorStep => (db'.skills = db.skills /\ db'.resume = db.resume)]_vars

\* the step serves an authenticated POST /api/skills/extract-resume
ExtractStep ==
  /\ pc = "idle"
  /\ route' = "skills.extract"
  /\ reqUser' # Null

\* the names of the skills the AI service extracted for the request
ExtractedNames ==
  LET body == aiResult'.data
  IN IF body.t = "object" /\ "skills" \in DOMAIN body.v /\ body.v.skills.t = "array"
     THEN {body.v.skills.v[k].name : k \in 1..Len(body.v.skills.v)}
     ELSE {}

\* C29: a successful extract-resume request never removes, reorders or
\* modifies existing skills: the stored list after it is the list before it
\* followed only by extracted skills whose names did not occur in it ignoring
\* case; a failed request leaves the list and the resume record unchanged.
C29_ExtractOnlyAppends ==
  [][ExtractStep =>
       /\ Len(res') = 1
       /\ IF res'[1].status = 200
          THEN /\ Len(db'.skills) >= Len(db.skills)
               /\ SubSeq(db'.skills, 1, Len(db.skills)) = db.skills
               /\ \A i \in (Len(db.skills) + 1)..Len(db'.skills) :
                    /\ Lower(db'.skills[i].name) \notin LowerNames(db.skills)
                    /\ db'.skills[i].name \in ExtractedNames
               /\ res'[1].body.data.skills = db'.skills
          ELSE db' = db]_vars

C29_Witness ==
  /\ route = "skills.extract"
  /\ pc = "done"
  /\ Len(res) = 1
  /\ res[1].status = 200
  /\ res[1].body.data.extractedCount = 1
  /\ Len(db.skills) = 2
  /\ db.skills[1] = [name |-> "react", confidence |-> 90, category |-> "Manual"]
  /\ db.skills[2] = [name |-> "python", confidence |-> 85, category |-> "Extracted"]

\* a recommend or guide request is waiting for an upstream call
Awaiting == InOrchestrator /\ pc \in {"ai", "github"}

\* a recommend or guide request has ended
Ended == InOrchestrator /\ pc = "done"

====
